---------------------------- MODULE Spec2Model ----------------------------
(***************************************************************************)
(* Model of the two shader transcoders of v64tng:                          *)
(*   spv_to_constexpr.py        word mode, command line driven             *)
(*   generate_shader_headers.py byte mode, fixed batch of shader names     *)
(* Files are sequences of bytes (0..255); text written to a file is the    *)
(* sequence of its ASCII codes.  Every open/read/write/close is one step,  *)
(* and every such step may raise an I/O error.                             *)
(***************************************************************************)
EXTENDS Integers, Sequences, FiniteSets, TLC

VARIABLES prog, argv, fs, pc, exit, stdout, handles, data, i, k,
          trace, err, run, fsStart, fsCall, callMark, prevStart

vars == <<prog, argv, fs, pc, exit, stdout, handles, data, i, k,
          trace, err, run, fsStart, fsCall, callMark, prevStart>>

-----------------------------------------------------------------------------
(* Bounds of the model *)

MaxLen == 5
MaxBatchLen == 2
MaxArgc == 4
MaxRuns == 2

ByteVals == {10, 222}

-----------------------------------------------------------------------------
(* Text encoding: the ASCII bytes of every string the scripts write *)

Utf8 ==
  [s \in {"constexpr uint32_t ", "[] = {\n", "    0x", ",\n", "};\n",
          "foo", "v", "vert", "frag", "\n    // ", ".h\n    ", "\n    ",
          ", ", "0x"} |->
     CASE s = "constexpr uint32_t " ->
            <<99, 111, 110, 115, 116, 101, 120, 112, 114, 32,
              117, 105, 110, 116, 51, 50, 95, 116, 32>>
       [] s = "[] = {\n"  -> <<91, 93, 32, 61, 32, 123, 10>>
       [] s = "    0x"    -> <<32, 32, 32, 32, 48, 120>>
       [] s = ",\n"       -> <<44, 10>>
       [] s = "};\n"      -> <<125, 59, 10>>
       [] s = "foo"       -> <<102, 111, 111>>
       [] s = "v"         -> <<118>>
       [] s = "vert"      -> <<118, 101, 114, 116>>
       [] s = "frag"      -> <<102, 114, 97, 103>>
       [] s = "\n    // " -> <<10, 32, 32, 32, 32, 47, 47, 32>>
       [] s = ".h\n    "  -> <<46, 104, 10, 32, 32, 32, 32>>
       [] s = "\n    "    -> <<10, 32, 32, 32, 32>>
       [] s = ", "        -> <<44, 32>>
       [] s = "0x"        -> <<48, 120>>]

(* "0123456789abcdef" *)
hexdigits == <<48, 49, 50, 51, 52, 53, 54, 55, 56, 57, 97, 98, 99, 100, 101, 102>>

(* uppercase digits, as format(n, 'X') gives *)
HexChar_Upper(n) == IF n < 10 THEN 48 + n ELSE 55 + n

HexChar(n) == hexdigits[n + 1]

(* bytes.hex(): two lowercase hex digits per byte, in order *)
RECURSIVE hex(_)
hex(bs) ==
  IF bs = <<>> THEN <<>>
  ELSE <<HexChar(Head(bs) \div 16), HexChar(Head(bs) % 16)>> \o hex(Tail(bs))

(* format(n, 'x'): lowercase hex digits of n, no padding *)
RECURSIVE FormatX(_)
FormatX(n) ==
  IF n < 16 THEN <<HexChar(n)>> ELSE FormatX(n \div 16) \o <<HexChar(n % 16)>>

(* format(n, '02x'): zero-padded on the left to a minimum width of 2 *)
Format02x(n) ==
  LET d == FormatX(n) IN IF Len(d) < 2 THEN <<48>> \o d ELSE d

(* s[::-1] *)
Reversed(s) == [j \in 1..Len(s) |-> s[Len(s) + 1 - j]]

(* s[a:b] for 0 <= a <= b: clipped to the length of s *)
Slice(s, a, b) ==
  LET hi == IF b < Len(s) THEN b ELSE Len(s) IN
  IF a >= hi THEN <<>> ELSE SubSeq(s, a + 1, hi)

(* the wrong slice: a fixed-width window, not reversed *)
WordAt_NoReverse(d, n) == Slice(d, n, n + 4)

(* line 12: word = data[i:i+4][::-1] *)
WordAt(d, n) == Reversed(Slice(d, n, n + 4))

(* a token line built from a zero-padded word *)
WordLine_Padded(w) ==
  Utf8["    0x"] \o hex([j \in 1..(4 - Len(w)) |-> 0] \o w) \o Utf8[",\n"]

(* line 13: f"    0x{word.hex()},\n" *)
WordLine(w) == Utf8["    0x"] \o hex(w) \o Utf8[",\n"]

(* line 8: f"constexpr uint32_t {var_name}[] = {{\n" *)
DeclLine(name) == Utf8["constexpr uint32_t "] \o Utf8[name] \o Utf8["[] = {\n"]

-----------------------------------------------------------------------------
(* Files *)

NoFile == [exists |-> FALSE, data |-> <<>>]
File(bytes) == [exists |-> TRUE, data |-> bytes]

ByteSeqs(n) == UNION {[1..m -> ByteVals] : m \in 0..n}

(* what a file left by an earlier build may hold: "// stale" *)
Stale == <<47, 47, 32, 115, 116, 97, 108, 101>>

CliPaths == {"a.spv", "a.h"}
Names == {"foo", "v"}

(* sys.argv of spv_to_constexpr.py: the script name, then the arguments *)
ArgVectors ==
  {[j \in 1..(c + 1) |->
      CASE j = 1 -> "spv_to_constexpr.py"
        [] j = 2 -> a
        [] j = 3 -> b
        [] j = 4 -> n
        [] OTHER -> "extra"] :
     a \in CliPaths, b \in CliPaths, n \in Names, c \in 0..MaxArgc}

input_filename == argv[2]
output_filename == argv[3]
var_name == argv[4]

UsageLine == "Usage: python spv_to_constexpr.py <input.spv> <output.h> <variable_name>"

Event(op, path) == [op |-> op, path |-> path]
Handle(path, mode) == [path |-> path, mode |-> mode]

(* a handle that is never released *)
WithExit_Leak(hs, path, mode) == hs

(* the end of a with block, reached normally or by an exception: the file *)
(* object is closed *)
WithExit(hs, path, mode) == hs \ {Handle(path, mode)}

(* an uncaught exception: the enclosing with block (if any) releases its *)
(* handle, the traceback is printed and the interpreter exits with code 1 *)
Uncaught(op, path, mode) ==
  /\ err' = <<Event(op, path)>>
  /\ handles' = WithExit(handles, path, mode)
  /\ exit' = <<1>>
  /\ pc' = "exited"
  /\ UNCHANGED <<prog, argv, fs, stdout, data, i, k, trace, run,
                 fsStart, fsCall, callMark, prevStart>>

-----------------------------------------------------------------------------
(* spv_to_constexpr.py *)

TooFewArgs_OffByOne == Len(argv) <= 4

(* line 18: len(sys.argv) < 4 *)
TooFewArgs == Len(argv) < 4

(* lines 18-20: usage message and sys.exit(1) *)
UsageError ==
  /\ prog = "cli" /\ pc = "main"
  /\ TooFewArgs
  /\ stdout' = Append(stdout, UsageLine)
  /\ exit' = <<1>>
  /\ pc' = "exited"
  /\ UNCHANGED <<prog, argv, fs, handles, data, i, k, trace, err, run,
                 fsStart, fsCall, callMark, prevStart>>

(* line 22: the call of spv_to_constexpr *)
SpvCall ==
  /\ prog = "cli" /\ pc = "main"
  /\ ~TooFewArgs
  /\ pc' = "open_in"
  /\ fsCall' = fs
  /\ callMark' = Len(trace)
  /\ UNCHANGED <<prog, argv, fs, exit, stdout, handles, data, i, k, trace, err,
                 run, fsStart, prevStart>>

(* the input opened in a mode that truncates it *)
SpvOpenIn_Truncating ==
  /\ prog = "cli" /\ pc = "open_in"
  /\ fs[input_filename].exists
  /\ fs' = [fs EXCEPT ![input_filename] = File(<<>>)]
  /\ handles' = handles \cup {Handle(input_filename, "rb")}
  /\ trace' = Append(trace, Event("open_r", input_filename))
  /\ pc' = "read"
  /\ UNCHANGED <<prog, argv, exit, stdout, data, i, k, err, run,
                 fsStart, fsCall, callMark, prevStart>>

(* both files opened by one with statement, before anything is read *)
SpvOpenIn_BothFiles ==
  /\ prog = "cli" /\ pc = "open_in"
  /\ fs[input_filename].exists
  /\ fs' = [fs EXCEPT ![output_filename] = File(<<>>)]
  /\ handles' = handles \cup {Handle(input_filename, "rb")}
  /\ trace' = Append(trace, Event("open_r", input_filename))
  /\ pc' = "read"
  /\ UNCHANGED <<prog, argv, exit, stdout, data, i, k, err, run,
                 fsStart, fsCall, callMark, prevStart>>

(* line 4: open(input_filename, 'rb') *)
SpvOpenIn ==
  /\ prog = "cli" /\ pc = "open_in"
  /\ fs[input_filename].exists
  /\ handles' = handles \cup {Handle(input_filename, "rb")}
  /\ trace' = Append(trace, Event("open_r", input_filename))
  /\ pc' = "read"
  /\ UNCHANGED <<prog, argv, fs, exit, stdout, data, i, k, err, run,
                 fsStart, fsCall, callMark, prevStart>>

(* line 5: data = f.read() *)
SpvRead ==
  /\ prog = "cli" /\ pc = "read"
  /\ data' = fs[input_filename].data
  /\ trace' = Append(trace, Event("read", input_filename))
  /\ pc' = "close_in"
  /\ UNCHANGED <<prog, argv, fs, exit, stdout, handles, i, k, err, run,
                 fsStart, fsCall, callMark, prevStart>>

(* lines 4-5: leaving the with block closes the input *)
SpvCloseIn ==
  /\ prog = "cli" /\ pc = "close_in"
  /\ handles' = WithExit(handles, input_filename, "rb")
  /\ trace' = Append(trace, Event("close", input_filename))
  /\ pc' = "open_out"
  /\ UNCHANGED <<prog, argv, fs, exit, stdout, data, i, k, err, run,
                 fsStart, fsCall, callMark, prevStart>>

(* opening for append keeps what the file held *)
OpenedForWrite_Append(f) == File(f.data)

(* open(path, 'w'): the file is created, or truncated to nothing *)
OpenedForWrite(f) == File(<<>>)

(* line 7: open(output_filename, 'w') *)
SpvOpenOut ==
  /\ prog = "cli" /\ pc = "open_out"
  /\ fs' = [fs EXCEPT ![output_filename] = OpenedForWrite(@)]
  /\ handles' = handles \cup {Handle(output_filename, "w")}
  /\ trace' = Append(trace, Event("open_w", output_filename))
  /\ pc' = "write_decl"
  /\ UNCHANGED <<prog, argv, exit, stdout, data, i, k, err, run,
                 fsStart, fsCall, callMark, prevStart>>

(* f.write(text) on the open output *)
Written(f, text) == File(f.data \o text)

(* line 8 *)
SpvWriteDecl ==
  /\ prog = "cli" /\ pc = "write_decl"
  /\ fs' = [fs EXCEPT ![output_filename] = Written(@, DeclLine(var_name))]
  /\ trace' = Append(trace, Event("write", output_filename))
  /\ i' = 0
  /\ pc' = "loop"
  /\ UNCHANGED <<prog, argv, exit, stdout, handles, data, k, err, run,
                 fsStart, fsCall, callMark, prevStart>>

(* lines 10-13: one turn of for i in range(0, len(data), 4) *)
SpvWriteWord ==
  /\ prog = "cli" /\ pc = "loop"
  /\ i < Len(data)
  /\ fs' = [fs EXCEPT ![output_filename] = Written(@, WordLine(WordAt(data, i)))]
  /\ trace' = Append(trace, Event("write", output_filename))
  /\ i' = i + 4
  /\ UNCHANGED <<prog, argv, pc, exit, stdout, handles, data, k, err, run,
                 fsStart, fsCall, callMark, prevStart>>

(* line 15: f.write("};\n") once the range is exhausted *)
SpvWriteEnd ==
  /\ prog = "cli" /\ pc = "loop"
  /\ i >= Len(data)
  /\ fs' = [fs EXCEPT ![output_filename] = Written(@, Utf8["};\n"])]
  /\ trace' = Append(trace, Event("write", output_filename))
  /\ pc' = "close_out"
  /\ UNCHANGED <<prog, argv, exit, stdout, handles, data, i, k, err, run,
                 fsStart, fsCall, callMark, prevStart>>

(* lines 7-15: leaving the with block closes the output; the script ends *)
SpvCloseOut ==
  /\ prog = "cli" /\ pc = "close_out"
  /\ handles' = WithExit(handles, output_filename, "w")
  /\ trace' = Append(trace, Event("close", output_filename))
  /\ exit' = <<0>>
  /\ pc' = "exited"
  /\ UNCHANGED <<prog, argv, fs, stdout, data, i, k, err, run,
                 fsStart, fsCall, callMark, prevStart>>

(* lines 4-15: open, read or write raises OSError; nothing catches it *)
SpvIOError ==
  /\ prog = "cli"
  /\ \/ pc = "open_in" /\ Uncaught("open_r", input_filename, "rb")
     \/ pc = "read" /\ Uncaught("read", input_filename, "rb")
     \/ pc = "open_out" /\ Uncaught("open_w", output_filename, "w")
     \/ pc \in {"write_decl", "loop"} /\ Uncaught("write", output_filename, "w")
     \/ pc = "close_out" /\ Uncaught("close", output_filename, "w")

-----------------------------------------------------------------------------
(* generate_shader_headers.py *)

(* line 23 *)
shaders == <<"vert", "frag">>

(* line 4 *)
header_filename(shader_name) == "shaders/" \o shader_name \o ".h"

(* line 5 *)
spv_filename(shader_name) == "shaders/" \o shader_name \o ".spv"

BatchPaths ==
  {spv_filename(shaders[n]) : n \in 1..Len(shaders)} \cup
  {header_filename(shaders[n]) : n \in 1..Len(shaders)}

(* sep.join(parts) *)
RECURSIVE Join(_, _)
Join(sep, parts) ==
  IF parts = <<>> THEN <<>>
  ELSE IF Len(parts) = 1 THEN parts[1]
  ELSE parts[1] \o sep \o Join(sep, Tail(parts))

(* the characters str.strip() removes *)
Whitespace == {9, 10, 11, 12, 13, 28, 29, 30, 31, 32}

RECURSIVE LStrip(_)
LStrip(s) ==
  IF s # <<>> /\ Head(s) \in Whitespace THEN LStrip(Tail(s)) ELSE s

RECURSIVE RStrip(_)
RStrip(s) ==
  IF s # <<>> /\ s[Len(s)] \in Whitespace
  THEN RStrip(SubSeq(s, 1, Len(s) - 1)) ELSE s

(* str.strip() *)
Strip(s) == RStrip(LStrip(s))

(* a token without its zero padding *)
ByteToken_NoPad(b) == Utf8["0x"] \o FormatX(b)

(* line 14: f'0x{b:02x}' *)
ByteToken(b) == Utf8["0x"] \o Format02x(b)

(* line 14: ', '.join([f'0x{b:02x}' for b in spv]) *)
spv_hex_array(spv) == Join(Utf8[", "], [n \in 1..Len(spv) |-> ByteToken(spv[n])])

(* lines 15-18: the f-string, a line break and four spaces before each line *)
header_content(shader_name, spv) ==
  Utf8["\n    // "] \o Utf8[shader_name] \o Utf8[".h\n    "]
    \o spv_hex_array(spv) \o Utf8["\n    "]

(* lines 24-25: the next turn of for shader in shaders *)
GenCall ==
  /\ prog = "batch" /\ pc = "main"
  /\ k <= Len(shaders)
  /\ pc' = "print"
  /\ fsCall' = fs
  /\ callMark' = Len(trace)
  /\ UNCHANGED <<prog, argv, fs, exit, stdout, handles, data, i, k, trace, err,
                 run, fsStart, prevStart>>

(* lines 8-9: the two debugging prints *)
GenPrint ==
  /\ prog = "batch" /\ pc = "print"
  /\ stdout' = stdout \o <<"Current working directory:",
                            "Trying to open: " \o spv_filename(shaders[k])>>
  /\ pc' = "open_in"
  /\ UNCHANGED <<prog, argv, fs, exit, handles, data, i, k, trace, err, run,
                 fsStart, fsCall, callMark, prevStart>>

(* line 11: open(spv_filename, "rb") *)
GenOpenIn ==
  /\ prog = "batch" /\ pc = "open_in"
  /\ fs[spv_filename(shaders[k])].exists
  /\ handles' = handles \cup {Handle(spv_filename(shaders[k]), "rb")}
  /\ trace' = Append(trace, Event("open_r", spv_filename(shaders[k])))
  /\ pc' = "read"
  /\ UNCHANGED <<prog, argv, fs, exit, stdout, data, i, k, err, run,
                 fsStart, fsCall, callMark, prevStart>>

(* line 12: spv = f.read() *)
GenRead ==
  /\ prog = "batch" /\ pc = "read"
  /\ data' = fs[spv_filename(shaders[k])].data
  /\ trace' = Append(trace, Event("read", spv_filename(shaders[k])))
  /\ pc' = "close_in"
  /\ UNCHANGED <<prog, argv, fs, exit, stdout, handles, i, k, err, run,
                 fsStart, fsCall, callMark, prevStart>>

(* lines 11-12: leaving the with block closes the input *)
GenCloseIn ==
  /\ prog = "batch" /\ pc = "close_in"
  /\ handles' = WithExit(handles, spv_filename(shaders[k]), "rb")
  /\ trace' = Append(trace, Event("close", spv_filename(shaders[k])))
  /\ pc' = "open_out"
  /\ UNCHANGED <<prog, argv, fs, exit, stdout, data, i, k, err, run,
                 fsStart, fsCall, callMark, prevStart>>

(* line 20: open(header_filename, "w") *)
GenOpenOut ==
  /\ prog = "batch" /\ pc = "open_out"
  /\ fs' = [fs EXCEPT ![header_filename(shaders[k])] = OpenedForWrite(@)]
  /\ handles' = handles \cup {Handle(header_filename(shaders[k]), "w")}
  /\ trace' = Append(trace, Event("open_w", header_filename(shaders[k])))
  /\ pc' = "write"
  /\ UNCHANGED <<prog, argv, exit, stdout, data, i, k, err, run,
                 fsStart, fsCall, callMark, prevStart>>

(* line 21: f.write(header_content.strip()) *)
GenWrite ==
  /\ prog = "batch" /\ pc = "write"
  /\ fs' = [fs EXCEPT ![header_filename(shaders[k])] =
                        Written(@, Strip(header_content(shaders[k], data)))]
  /\ trace' = Append(trace, Event("write", header_filename(shaders[k])))
  /\ pc' = "close_out"
  /\ UNCHANGED <<prog, argv, exit, stdout, handles, data, i, k, err, run,
                 fsStart, fsCall, callMark, prevStart>>

(* lines 20-21: leaving the with block closes the header; the call returns *)
GenCloseOut ==
  /\ prog = "batch" /\ pc = "close_out"
  /\ handles' = WithExit(handles, header_filename(shaders[k]), "w")
  /\ trace' = Append(trace, Event("close", header_filename(shaders[k])))
  /\ k' = k + 1
  /\ pc' = "main"
  /\ UNCHANGED <<prog, argv, fs, exit, stdout, data, i, err, run,
                 fsStart, fsCall, callMark, prevStart>>

(* line 24: the list is exhausted, the script ends *)
GenDone ==
  /\ prog = "batch" /\ pc = "main"
  /\ k > Len(shaders)
  /\ exit' = <<0>>
  /\ pc' = "exited"
  /\ UNCHANGED <<prog, argv, fs, stdout, handles, data, i, k, trace, err, run,
                 fsStart, fsCall, callMark, prevStart>>

(* an error handler that skips the failed shader and goes on *)
GenIOError_Continue ==
  /\ prog = "batch"
  /\ pc \in {"open_in", "read"}
  /\ err' = <<Event(IF pc = "read" THEN "read" ELSE "open_r",
                    spv_filename(shaders[k]))>>
  /\ handles' = WithExit(handles, spv_filename(shaders[k]), "rb")
  /\ k' = k + 1
  /\ pc' = "main"
  /\ UNCHANGED <<prog, argv, fs, exit, stdout, data, i, trace, run,
                 fsStart, fsCall, callMark, prevStart>>

(* lines 8-21: getcwd, open, read or write raises OSError; nothing catches *)
(* it, neither in generate_header nor in the loop of lines 24-25 *)
GenIOError ==
  /\ prog = "batch"
  /\ \/ pc = "print" /\ Uncaught("getcwd", ".", "")
     \/ pc = "open_in" /\ Uncaught("open_r", spv_filename(shaders[k]), "rb")
     \/ pc = "read" /\ Uncaught("read", spv_filename(shaders[k]), "rb")
     \/ pc = "open_out" /\ Uncaught("open_w", header_filename(shaders[k]), "w")
     \/ pc = "write" /\ Uncaught("write", header_filename(shaders[k]), "w")
     \/ pc = "close_out" /\ Uncaught("close", header_filename(shaders[k]), "w")

-----------------------------------------------------------------------------
(* The scripts as processes *)

(* a fresh interpreter: nothing read, nothing open, nothing printed *)
ProcessStart ==
  /\ pc = "main" /\ exit = <<>> /\ stdout = <<>> /\ handles = {}
  /\ data = <<>> /\ i = 0 /\ k = 1 /\ trace = <<>> /\ err = <<>>
  /\ callMark = 0

CliFiles ==
  {f \in [CliPaths -> {NoFile, File(Stale)} \cup {File(s) : s \in ByteSeqs(MaxLen)}] :
     f["a.h"] \in {NoFile, File(Stale)}}

BatchFiles ==
  {f \in [BatchPaths -> {NoFile, File(Stale)} \cup {File(s) : s \in ByteSeqs(MaxBatchLen)}] :
     \A n \in 1..Len(shaders) :
        /\ f[header_filename(shaders[n])] \in {NoFile, File(Stale)}
        /\ f[spv_filename(shaders[n])] # File(Stale)}

Init ==
  /\ \/ prog = "cli" /\ argv \in ArgVectors /\ fs \in CliFiles
     \/ prog = "batch" /\ argv = <<"generate_shader_headers.py">> /\ fs \in BatchFiles
  /\ ProcessStart
  /\ run = 1
  /\ fsStart = fs /\ fsCall = fs /\ prevStart = fs

(* the same command line is run once more, on the files a successful run *)
(* has left *)
Rerun ==
  /\ pc = "exited" /\ exit = <<0>>
  /\ run < MaxRuns
  /\ pc' = "main" /\ exit' = <<>> /\ stdout' = <<>> /\ handles' = {}
  /\ data' = <<>> /\ i' = 0 /\ k' = 1 /\ trace' = <<>> /\ err' = <<>>
  /\ callMark' = 0
  /\ run' = run + 1
  /\ fsStart' = fs /\ fsCall' = fs
  /\ prevStart' = fsStart
  /\ UNCHANGED <<prog, argv, fs>>

Next ==
  \/ UsageError \/ SpvCall \/ SpvOpenIn \/ SpvRead \/ SpvCloseIn
  \/ SpvOpenOut \/ SpvWriteDecl \/ SpvWriteWord \/ SpvWriteEnd
  \/ SpvCloseOut \/ SpvIOError
  \/ GenCall \/ GenPrint \/ GenOpenIn \/ GenRead \/ GenCloseIn
  \/ GenOpenOut \/ GenWrite \/ GenCloseOut \/ GenDone \/ GenIOError
  \/ Rerun

Spec == Init /\ [][Next]_vars

-----------------------------------------------------------------------------
(* Reading the written files back *)

(* s.find(sep, n - 1) + 1: the first place at or after n where sep occurs, *)
(* 0 when there is none *)
RECURSIVE Find(_, _, _)
Find(s, sep, n) ==
  IF n + Len(sep) - 1 > Len(s) THEN 0
  ELSE IF SubSeq(s, n, n + Len(sep) - 1) = sep THEN n
  ELSE Find(s, sep, n + 1)

(* s.split(sep) for a non-empty separator *)
RECURSIVE Split(_, _)
Split(s, sep) ==
  LET n == Find(s, sep, 1)
  IN IF n = 0 THEN <<s>>
     ELSE <<SubSeq(s, 1, n - 1)>> \o Split(SubSeq(s, n + Len(sep), Len(s)), sep)

LowerHex == (48..57) \cup (97..102)

(* int(c, 16) for one lowercase hex digit *)
HexVal(c) == IF c <= 57 THEN c - 48 ELSE c - 87

IsHex(digits) == \A n \in 1..Len(digits) : digits[n] \in LowerHex

(* bytes.fromhex(digits), for an even number of digits *)
FromHex(digits) ==
  [n \in 1..(Len(digits) \div 2) |->
     16 * HexVal(digits[2 * n - 1]) + HexVal(digits[2 * n])]

RECURSIVE Concat(_)
Concat(parts) == IF parts = <<>> THEN <<>> ELSE Head(parts) \o Concat(Tail(parts))

SpvDone == prog = "cli" /\ pc = "exited" /\ exit = <<0>>

(* the lines of the written header; the last is what follows the final \n *)
OutLines == Split(fs[output_filename].data, <<10>>)

(* the lines between the declaration line and the closing line *)
TokenLines == SubSeq(OutLines, 2, Len(OutLines) - 2)

(* a token line is four spaces, 0x, hex digits, a comma *)
WellFormedLine(l) ==
  /\ Len(l) >= 7
  /\ SubSeq(l, 1, 6) = <<32, 32, 32, 32, 48, 120>>
  /\ l[Len(l)] = 44
  /\ IsHex(SubSeq(l, 7, Len(l) - 1))
  /\ Len(l) % 2 = 1

Digits(l) == SubSeq(l, 7, Len(l) - 1)

(* the bytes a token stands for: its digits parsed, then byte-reversed *)
Decode(l) == Reversed(FromHex(Digits(l)))

(* C1: word-mode round trip.  For a payload whose length is a multiple of  *)
(* 4, the tokens of the written file, parsed back in order and each       *)
(* byte-reversed per 4-byte group, concatenate to exactly the payload.     *)
C1_WordRoundTrip ==
  (SpvDone /\ Len(data) % 4 = 0) =>
     LET tl == TokenLines
     IN /\ \A n \in 1..Len(tl) : WellFormedLine(tl[n]) /\ Len(Digits(tl[n])) = 8
        /\ Concat([n \in 1..Len(tl) |-> Decode(tl[n])]) = data

(* a payload of two or more whole words, not all bytes equal, was written *)
C1_Witness ==
  /\ SpvDone /\ Len(data) % 4 = 0 /\ Len(data) >= 8
  /\ data[1] # data[4]
  /\ Len(TokenLines) = Len(data) \div 4

(* C3: word-mode token count.  ceil(len/4) tokens are written, none for   *)
(* an empty payload; when the length is no multiple of 4 the final token   *)
(* is the remaining len mod 4 bytes, byte-reversed, without zero padding.  *)
C3_WordTokenCount ==
  SpvDone =>
     LET n == Len(data)
         r == n % 4
         tl == TokenLines
     IN /\ Len(tl) = (n + 3) \div 4
        /\ r # 0 =>
             LET last == tl[Len(tl)]
             IN /\ WellFormedLine(last)
                /\ Len(Digits(last)) = 2 * r
                /\ Decode(last) = SubSeq(data, n - r + 1, n)

(* a whole word followed by a partial one was written *)
C3_Witness ==
  SpvDone /\ Len(data) > 4 /\ Len(data) % 4 # 0 /\ Len(TokenLines) >= 2

(* the empty payload: no token at all *)
C3_WitnessEmpty == SpvDone /\ data = <<>> /\ TokenLines = <<>>

(* the declaration line and the closing line around the token lines *)
Framed(ls) ==
  /\ Len(ls) >= 3
  /\ ls[1] = Utf8["constexpr uint32_t "] \o Utf8[var_name] \o <<91, 93, 32, 61, 32, 123>>
  /\ ls[Len(ls) - 1] = <<125, 59>>
  /\ ls[Len(ls)] = <<>>

(* C4 as stated: every token line of every written file has exactly 8     *)
(* lowercase hex digits.                                                   *)
C4_Original ==
  SpvDone =>
     LET ls == OutLines
     IN /\ Framed(ls)
        /\ \A n \in 2..(Len(ls) - 2) :
             WellFormedLine(ls[n]) /\ Len(Digits(ls[n])) = 8

(* C4, amended: the written file is the declaration line, then the token   *)
(* lines (four spaces, 0x, lowercase hex digits, a comma), then the        *)
(* closing line and a final newline; a token has 8 digits, except the last *)
(* one of a payload whose length is no multiple of 4, which has            *)
(* 2 * (len mod 4) digits.                                                 *)
C4_WordFormat ==
  SpvDone =>
     LET ls == OutLines
         r == Len(data) % 4
     IN /\ Framed(ls)
        /\ \A n \in 2..(Len(ls) - 2) :
             /\ WellFormedLine(ls[n])
             /\ Len(Digits(ls[n])) =
                  IF n = Len(ls) - 2 /\ r # 0 THEN 2 * r ELSE 8

(* a file with a full token and a short final one *)
C4_Witness ==
  /\ SpvDone /\ Len(data) % 4 # 0 /\ Len(OutLines) >= 5
  /\ \E n \in 1..Len(data) : data[n] >= 160

(* a call of generate_header has just returned *)
GenReturned == prog = "batch" /\ pc = "main" /\ k > 1

(* the tokens of a written byte-mode header: what follows the comment     *)
(* line, without its indentation, split at ", "                            *)
ByteTokens(text) ==
  LET ls == Split(text, <<10>>)
  IN IF Len(ls) < 2 THEN <<>>
     ELSE Split(SubSeq(ls[2], 5, Len(ls[2])), <<44, 32>>)

(* C2: byte mode.  generate_header writes exactly len(S) tokens, in input  *)
(* order; token i is 0x and the two lowercase hex digits of byte S[i].     *)
C2_ByteTokens ==
  GenReturned =>
     LET toks == ByteTokens(fs[header_filename(shaders[k - 1])].data)
     IN /\ Len(toks) = Len(data)
        /\ \A n \in 1..Len(toks) :
             /\ Len(toks[n]) = 4
             /\ SubSeq(toks[n], 1, 2) = <<48, 120>>
             /\ IsHex(SubSeq(toks[n], 3, 4))
             /\ 16 * HexVal(toks[n][3]) + HexVal(toks[n][4]) = data[n]

(* a header of two tokens, one of them with a leading zero digit *)
C2_Witness ==
  /\ GenReturned /\ Len(data) >= 2 /\ data[1] # data[2]
  /\ Len(ByteTokens(fs[header_filename(shaders[k - 1])].data)) = Len(data)

(* C5: usage error.  With fewer than 3 arguments the script prints the     *)
(* usage line and exits with code 1, having opened no file and changed no  *)
(* file; with 3 or more it never prints the usage line.                    *)
C5_UsageError ==
  prog = "cli" =>
     /\ (Len(argv) - 1 < 3 /\ pc # "main") =>
          /\ pc = "exited" /\ exit = <<1>>
          /\ stdout = <<UsageLine>>
          /\ trace = <<>> /\ err = <<>> /\ handles = {}
          /\ fs = fsStart
     /\ Len(argv) - 1 >= 3 => \A n \in 1..Len(stdout) : stdout[n] # UsageLine

(* two arguments given, the script has run *)
C5_Witness ==
  prog = "cli" /\ Len(argv) - 1 = 2 /\ pc = "exited" /\ stdout = <<UsageLine>>

(* three arguments given, the script has run to its end *)
C5_WitnessEnough == SpvDone /\ Len(argv) - 1 = 3

-----------------------------------------------------------------------------
(* Histories of a run *)

(* the files a run has opened, in order *)
Opened == SelectSeq(trace, LAMBDA e : e.op \in {"open_r", "open_w"})

(* the order in which a complete batch opens its files *)
BatchOrder ==
  Concat([n \in 1..Len(shaders) |->
            <<Event("open_r", spv_filename(shaders[n])),
              Event("open_w", header_filename(shaders[n]))>>])

ReadFailed == err # <<>> /\ err[1].op \in {"open_r", "read"}

Touched(path) == \E n \in 1..Len(trace) : trace[n].path = path

(* C6: batch abort.  The shaders are processed in list order; once the     *)
(* input of a shader cannot be read the run has ended with a nonzero exit  *)
(* code, and no later shader was read nor its header created or modified.  *)
C6_BatchAbort ==
  prog = "batch" =>
     /\ Len(Opened) <= Len(BatchOrder)
     /\ Opened = SubSeq(BatchOrder, 1, Len(Opened))
     /\ ReadFailed =>
          /\ pc = "exited" /\ exit # <<>> /\ exit # <<0>>
          /\ \A n \in (k + 1)..Len(shaders) :
               /\ ~Touched(spv_filename(shaders[n]))
               /\ ~Touched(header_filename(shaders[n]))
               /\ fs[header_filename(shaders[n])] = fsStart[header_filename(shaders[n])]

(* the first shader could not be read although the second one is there *)
C6_Witness ==
  /\ prog = "batch" /\ ReadFailed /\ k = 1 /\ pc = "exited"
  /\ fs[spv_filename(shaders[2])].exists

(* the output path of the current, or the last, call *)
OutPath ==
  IF prog = "cli" THEN output_filename
  ELSE header_filename(shaders[IF pc = "main" THEN k - 1 ELSE k])

InPath ==
  IF prog = "cli" THEN input_filename
  ELSE spv_filename(shaders[IF pc = "main" THEN k - 1 ELSE k])

(* a call of a transcoder has just returned normally *)
Returned == SpvDone \/ GenReturned

(* C7: idempotence.  A second successful run of the same command on the   *)
(* same input content leaves exactly the output the first successful run  *)
(* left, although the two runs found different content at the output path. *)
C7_Idempotent ==
  (run >= 2 /\ pc = "exited" /\ exit = <<0>>) =>
     IF prog = "cli"
     THEN fsStart[input_filename] = prevStart[input_filename] =>
            fs[output_filename] = fsStart[output_filename]
     ELSE (\A n \in 1..Len(shaders) :
             fsStart[spv_filename(shaders[n])] = prevStart[spv_filename(shaders[n])]) =>
          (\A n \in 1..Len(shaders) :
             fs[header_filename(shaders[n])] = fsStart[header_filename(shaders[n])])

(* two successful runs on the same input; the first found a stale file at  *)
(* the output path, the second the output of the first                     *)
C7_Witness ==
  /\ prog = "cli" /\ run = 2 /\ pc = "exited" /\ exit = <<0>>
  /\ fsStart[input_filename] = prevStart[input_filename]
  /\ prevStart[output_filename] = File(Stale)
  /\ Len(data) >= 4

(* C8: side effects.  A successful call writes exactly one file, the       *)
(* output path; every other file is as it was when the call began.         *)
C8_OneFileWritten ==
  Returned =>
     /\ \A p \in DOMAIN fs : p # OutPath => fs[p] = fsCall[p]
     /\ \A n \in (callMark + 1)..Len(trace) :
          trace[n].op \in {"open_w", "write"} => trace[n].path = OutPath
     /\ Cardinality({n \in (callMark + 1)..Len(trace) : trace[n].op = "open_w"}) = 1
     /\ fs[OutPath].exists

(* a successful call whose input lies at another path than its output *)
C8_Witness ==
  /\ SpvDone /\ input_filename # output_filename
  /\ fs[input_filename] = fsCall[input_filename]
  /\ fs[output_filename] # fsCall[output_filename]
  /\ data # <<>>

(* C9: file handles.  At most one handle is open at any moment; the output *)
(* is opened only right after the input was opened, read and closed; no    *)
(* handle is open once the script has ended, normally or by an I/O error.  *)
C9_HandleDiscipline ==
  /\ Cardinality(handles) <= 1
  /\ pc = "exited" => handles = {}
  /\ \A n \in 1..Len(trace) :
       trace[n].op = "open_w" =>
          /\ n >= 4
          /\ trace[n - 3].op = "open_r"
          /\ trace[n - 2] = Event("read", trace[n - 3].path)
          /\ trace[n - 1] = Event("close", trace[n - 3].path)
  /\ \A h \in handles : h.mode = "w" => h.path = OutPath /\ pc # "main"

(* a run ended by an I/O error while the output was open for writing *)
C9_Witness ==
  /\ pc = "exited" /\ err # <<>> /\ err[1].op = "write"
  /\ Len(trace) >= 5

(* C10: when the input cannot be opened or read, the call fails without    *)
(* the output path having been opened, created or truncated.               *)
C10_InputFailureLeavesOutput ==
  ReadFailed =>
     /\ fs[OutPath] = fsCall[OutPath]
     /\ \A n \in (callMark + 1)..Len(trace) : trace[n].path # OutPath \/ InPath = OutPath
     /\ \A n \in (callMark + 1)..Len(trace) : trace[n].op \notin {"open_w", "write"}

(* the read of an existing input failed while a stale output was there *)
C10_Witness ==
  /\ ReadFailed /\ err[1].op = "read" /\ InPath # OutPath
  /\ fs[OutPath] = File(Stale)

=============================================================================
